---- MODULE Spec2Model ----
(***************************************************************************)
(* Crystal Ball: the countdown / vote-state coordination core.             *)
(*                                                                         *)
(* One browser tab of the application is modelled as a state machine over  *)
(* the remote record store (votes rows), the two ledger stores (cookie and *)
(* localStorage), the rendered prediction list, the click handler with its *)
(* in-flight flag, the list refreshes in flight, the countdown intervals   *)
(* and the wall clock.  Every await of the source is a separate step; the  *)
(* synchronous code between two awaits is one atomic action.               *)
(***************************************************************************)
EXTENDS Integers, Sequences, FiniteSets, TLC

(***************************************************************************)
(* Bounds of the model.                                                    *)
(***************************************************************************)
MaxInFlight == 2    \* list fetches, form posts and orphaned timers at one time
MaxAdvance == 3     \* half periods the wall clock runs past its first value

(***************************************************************************)
(* Program constants.                                                      *)
(***************************************************************************)
TickPeriodMs == 1000     \* setInterval period of startCountdowns
ExpiryMarginMs == 1000   \* getRemainingTimeUnits: diffMilliseconds < 1000

(***************************************************************************)
(* The remote record store: reviewed predictions and their votes rows.     *)
(* realization_time is the calendar date the list fetches hand on.         *)
(***************************************************************************)
reviewed_predictions ==
  << [id |-> "p1", tag |-> "politics", realization_time |-> "1970-01-02"],
     [id |-> "p2", tag |-> "science", realization_time |-> "1970-01-03"] >>

PredictionIds == {reviewed_predictions[i].id : i \in DOMAIN reviewed_predictions}

InitialVotes ==
  [p \in PredictionIds |->
     IF p = "p1" THEN [up_count |-> 3, down_count |-> 1]
                 ELSE [up_count |-> 0, down_count |-> 0]]

\* TAGS_DATA, restricted to the buttons the model clicks, in document order
TAGS_DATA == << "all", "politics" >>

\* values of the data-vote-type attribute a click can carry; the templates
\* only write "up" and "down", any other value is a tampered attribute
VoteTypeAttrs == {"up", "down", "sideways"}

NoVotes == [up_count |-> -1, down_count |-> -1]
NoCount == [p \in PredictionIds |-> 0]

(***************************************************************************)
(* Outcomes of the calls to the record store (supabase).                   *)
(***************************************************************************)
\* getFromTable filtered by id: rows returned, request error, no row
SelectOutcomes == {"ok", "error", "missing"}
\* updateInTable: row updated and returned; request rejected; no row matched
\* (empty data, no error)
UpdateOutcomes == {"ok", "reject", "norow"}
\* list fetches and inserts
CallOutcomes == {"ok", "error"}
\* list fetches: also rows whose last realization_time is no date, either
\* not in YYYY-MM-DD form or in that form and no day of the calendar, and
\* rows whose last realization_time is the first day of the epoch
ListOutcomes == CallOutcomes \cup {"badformat", "baddate", "epoch"}

VARIABLES
  votesTable,     \* remote votes rows: id -> [up_count, down_count]
  cookie,         \* document.cookie entry "pids"
  localStorage,   \* localStorage item "pids"
  eventTracker,   \* store.eventTracker: the click handlers attached to the list
  isActiveClick,  \* the in-flight flag of the click handler's closure
  actions,        \* activations of eventHandlerFunction suspended at an await
  dom,            \* cards in the #predictions container, in document order
  view,           \* "list" or "form": which of the two is shown
  loader,         \* #main-loader is shown
  activeTags,     \* the tag buttons carrying btn--active
  tagDisabled,    \* tag buttons with disabled = true
  pending,        \* fetchAndListPredictions calls awaiting their fetch
  posts,          \* postPrediction calls in flight
  runs,           \* setInterval timers that have not been cleared
  now,            \* wall clock, ms
  written,        \* history: the ids an updateInTable call was issued for
  acks,           \* history: updateVotes results with isSuccessful, per id (up to 2)
  lastResult,     \* history: how the last handleClickVoteBtn call ended
  peer            \* another tab or client open on the same record store

voteVars == <<votesTable, cookie, localStorage, isActiveClick, actions>>
histVars == <<written, acks, lastResult>>
listVars == <<dom, view, loader, activeTags, tagDisabled, pending, posts, eventTracker>>
timeVars == <<runs, now>>
vars == <<voteVars, histVars, listVars, timeVars, peer>>

(***************************************************************************)
(* Vote ledger (features/votes).                                           *)
(* A ledger store holds either nothing or a text: the JSON text of an id   *)
(* list, modelled by the list it encodes, or a text that is not JSON.      *)
(***************************************************************************)
NoItem == [present |-> FALSE, parses |-> FALSE, ids |-> << >>]
Unparsable == [present |-> TRUE, parses |-> FALSE, ids |-> << >>]
JSONstringify(idList) == [present |-> TRUE, parses |-> TRUE, ids |-> idList]
\* JSON.parse throws a SyntaxError on a text that is not JSON
JSONparseThrows(text) == ~text.parses
JSONparse(text) == text.ids

\* getVotedPredictionIds parses the first store that holds a text, and
\* nothing catches what JSON.parse throws
getVotedPredictionIdsThrows ==
  IF cookie.present THEN JSONparseThrows(cookie)
  ELSE localStorage.present /\ JSONparseThrows(localStorage)

\* a ledger read that knows the cookie only
getVotedPredictionIds_CookieOnly ==
  IF cookie.present THEN JSONparse(cookie) ELSE << >>

\* a ledger read that prefers the local store
getVotedPredictionIds_LocalFirst ==
  IF localStorage.present THEN JSONparse(localStorage)
  ELSE IF cookie.present THEN JSONparse(cookie)
  ELSE << >>

getVotedPredictionIds ==
  IF cookie.present THEN JSONparse(cookie)
  ELSE IF localStorage.present THEN JSONparse(localStorage)
  ELSE << >>

\* a lookup that reads the stores before it looks at the id
hasVotedPredictionThrows_ReadsFirst(predictionId) == getVotedPredictionIdsThrows

\* hasVotedPrediction returns null for an empty id before it reads
hasVotedPredictionThrows(predictionId) ==
  predictionId # "" /\ getVotedPredictionIdsThrows

\* a ledger lookup that finds nothing
hasVotedPrediction_Never(predictionId) == FALSE

hasVotedPrediction(predictionId) ==
  IF predictionId = "" THEN FALSE
  ELSE \E i \in DOMAIN getVotedPredictionIds :
         getVotedPredictionIds[i] = predictionId

addVotedPredictionIdThrows == getVotedPredictionIdsThrows

\* a record that forgets the id
addVotedPredictionId_Forgets(predictionId) == getVotedPredictionIds

addVotedPredictionId(predictionId) ==
  Append(getVotedPredictionIds, predictionId)

(***************************************************************************)
(* Vote arithmetic (utils.increaseObjectValue, events.updateVoteCount).    *)
(***************************************************************************)
voteKey(voteType) == voteType \o "_count"

increaseObjectValueThrows(obj, key) == key \notin DOMAIN obj

\* an increment that lands on the other keys
increaseObjectValue_OtherKey(obj, key, increment) ==
  [k \in DOMAIN obj |-> IF k # key THEN obj[k] + increment ELSE obj[k]]

increaseObjectValue(obj, key, increment) ==
  [k \in DOMAIN obj |-> IF k = key THEN obj[k] + increment ELSE obj[k]]

validVoteTypes == {"up", "down"}

\* an updateVoteCount without its argument checks
updateVoteCountThrows_Never(predictionId, currentVotes, voteType) == FALSE

\* the throws of updateVoteCount before its await
updateVoteCountThrows(predictionId, currentVotes, voteType) ==
  \/ predictionId = ""
  \/ voteType \notin validVoteTypes
  \/ increaseObjectValueThrows(currentVotes, voteKey(voteType))


\* updateVotes: updateInTable throws on a request error and returns
\* updatedData[0] otherwise, which is undefined when no row matched
updateVotesIsSuccessful(outcome) == outcome \in {"ok", "norow"}

\* the write reached the votes row
updateApplied(outcome) == outcome = "ok"

\* a handleClickVoteBtn whose catch throws the error on
handleClickVoteBtnResult_Rethrown(threw) == IF threw THEN "thrown" ELSE "completed"

\* handleClickVoteBtn: try { ... return {isCompleted: true} }
\*                     catch { return {isCompleted: false} }
handleClickVoteBtnResult(threw) == IF threw THEN "failed" ELSE "completed"

\* a handler without the isActiveClick test
ClickBlocked_NoGate == FALSE

\* eventHandlerFunction: if (!voteBtnEl || isActiveClick) return;
ClickBlocked == isActiveClick

(***************************************************************************)
(* Countdown arithmetic (features/countdown).                              *)
(***************************************************************************)
\* /^\d{4}-\d{2}-\d{2}$/.test(dateString), over the date strings of the model
regexTest(dateString) ==
  dateString \in {"1970-01-01", "1970-01-02", "1970-01-03", "2024-13-31"}

\* the day new Date(`${dateString}T23:59:59`) falls on, counted from the
\* epoch; -1 for an Invalid Date
daysSinceEpoch(dateString) ==
  CASE dateString = "1970-01-01" -> 0
    [] dateString = "1970-01-02" -> 1
    [] dateString = "1970-01-03" -> 2
    [] OTHER -> -1

\* getTime() of an Invalid Date; the timestamps of dates are positive here
NaN == -1

\* only the format test throws: Number.isNaN(date) is false for every Date
getTimestampFromDateStringThrows(dateString) == ~regexTest(dateString)

\* new Date(`${dateString}T23:59:59`).getTime()
getTimestampFromDateString(dateString) ==
  IF daysSinceEpoch(dateString) = -1 THEN NaN
  ELSE (daysSinceEpoch(dateString) * 24 + 23) * 3600000 + 59 * 60000 + 59 * 1000

\* Date.parse(dateStr): midnight of the day, NaN for what is no date
DateParse(dateStr) ==
  IF daysSinceEpoch(dateStr) = -1 THEN NaN ELSE daysSinceEpoch(dateStr) * 86400000

\* formatDateUSA: if (!Date.parse(dateStr)) throw; NaN and 0 are falsy
formatDateUSAThrows(dateStr) == DateParse(dateStr) \in {NaN, 0}

\* a breakdown computed from whatever number comes in
getRemainingTimeUnitsThrows_Never(predictionId, futureTimestamp) == FALSE

\* if (Number.isNaN(futureTimestamp)) throw; if (!predictionId) throw
getRemainingTimeUnitsThrows(predictionId, futureTimestamp) ==
  \/ futureTimestamp = NaN
  \/ predictionId = ""

\* a breakdown that expires only once the deadline itself has passed
getRemainingTimeUnits_AtDeadline(futureTimestamp, clock) ==
  LET diffMilliseconds == futureTimestamp - clock
      diffSeconds == diffMilliseconds \div 1000
      diffMinutes == diffSeconds \div 60
      diffHours == diffMinutes \div 60
      diffDays == diffHours \div 24
  IN  IF diffMilliseconds < 0
      THEN [units |-> [days |-> 0, hours |-> 0, minutes |-> 0, seconds |-> 0],
            next |-> FALSE]
      ELSE [units |-> [days |-> diffDays, hours |-> diffHours % 24,
                       minutes |-> diffMinutes % 60, seconds |-> diffSeconds % 60],
            next |-> TRUE]

\* a breakdown whose hours are not reduced by the days
getRemainingTimeUnits_AllHours(futureTimestamp, clock) ==
  LET diffMilliseconds == futureTimestamp - clock
      diffSeconds == diffMilliseconds \div 1000
      diffMinutes == diffSeconds \div 60
      diffHours == diffMinutes \div 60
      diffDays == diffHours \div 24
  IN  IF diffMilliseconds < ExpiryMarginMs
      THEN [units |-> [days |-> 0, hours |-> 0, minutes |-> 0, seconds |-> 0],
            next |-> FALSE]
      ELSE [units |-> [days |-> diffDays, hours |-> diffHours,
                       minutes |-> diffMinutes % 60, seconds |-> diffSeconds % 60],
            next |-> TRUE]

\* futureTimestamp - new Date().getTime() against the margin, then the
\* Math.floor chain
getRemainingTimeUnits(futureTimestamp, clock) ==
  LET diffMilliseconds == futureTimestamp - clock
      diffSeconds == diffMilliseconds \div 1000
      diffMinutes == diffSeconds \div 60
      diffHours == diffMinutes \div 60
      diffDays == diffHours \div 24
  IN  IF diffMilliseconds < ExpiryMarginMs
      THEN [units |-> [days |-> 0, hours |-> 0, minutes |-> 0, seconds |-> 0],
            next |-> FALSE]
      ELSE [units |-> [days |-> diffDays, hours |-> diffHours % 24,
                       minutes |-> diffMinutes % 60, seconds |-> diffSeconds % 60],
            next |-> TRUE]

\* prediction.realization_time of the fetched row
realization_time(predictionId) ==
  LET i == CHOOSE j \in DOMAIN reviewed_predictions :
             reviewed_predictions[j].id = predictionId
  IN  reviewed_predictions[i].realization_time

getCountdownDataThrows(realizationTime, predictionId) ==
  \/ getTimestampFromDateStringThrows(realizationTime)
  \/ getRemainingTimeUnitsThrows(predictionId,
                                 getTimestampFromDateString(realizationTime))

getCountdownData(realizationTime, clock) ==
  getRemainingTimeUnits(getTimestampFromDateString(realizationTime), clock)

\* an interval callback without the endedCountdowns test
isEndedCountdown_Never(endedCountdowns, predictionId) == FALSE

\* endedCountdowns.includes(prediction.id)
isEndedCountdown(endedCountdowns, predictionId) == predictionId \in endedCountdowns

(***************************************************************************)
(* The rendered list.  A card is the markup of getPredictionCardTemplate:  *)
(*   btn  "enabled"  vote buttons carrying data-prediction-id              *)
(*        "disabled" rendered disabled because the ledger held the id      *)
(*        "voted"    redrawn after a vote: disabled, no data-prediction-id *)
(*        "expired"  disabled and stripped by setPredictionAsExpired       *)
(*        "none"     the buttons container was redrawn empty               *)
(*   expired  the card carries predictions__item--expired                  *)
(*   next     the countdown last drawn into the card was a running one     *)
(***************************************************************************)
SeqToSet(s) == {s[i] : i \in DOMAIN s}

\* document.querySelector: the first card of the id, 0 when there is none
FirstCard(d, predictionId) ==
  IF \E i \in DOMAIN d : d[i].id = predictionId
  THEN CHOOSE i \in DOMAIN d :
         /\ d[i].id = predictionId
         /\ \A j \in DOMAIN d : d[j].id = predictionId => i <= j
  ELSE 0

setPredictionAsExpired(d, predictionId) ==
  LET k == FirstCard(d, predictionId)
  IN  IF k = 0 THEN d
      ELSE [d EXCEPT ![k].expired = TRUE,
                     ![k].btn = IF @ \in {"enabled", "disabled"} THEN "expired" ELSE @]

\* createPredictionData + getPredictionCardTemplate for one fetched row
createPredictionData(predictionId, clock) ==
  [id |-> predictionId,
   btn |-> IF hasVotedPrediction(predictionId) THEN "disabled" ELSE "enabled",
   expired |-> FALSE,
   next |-> getCountdownData(realization_time(predictionId), clock).next]

RECURSIVE expireAll(_, _)
expireAll(d, ids) ==
  IF ids = {} THEN d
  ELSE LET p == CHOOSE q \in ids : TRUE
       IN  expireAll(setPredictionAsExpired(d, p), ids \ {p})

\* listPredictions: the cards are built first (getCountdownData marks the
\* cards already in the document), then appended to the container
listPredictions(d, predictions, clock) ==
  LET gone == {p \in SeqToSet(predictions) :
                 ~getCountdownData(realization_time(p), clock).next}
  IN  expireAll(d, gone) \o
      [i \in DOMAIN predictions |-> createPredictionData(predictions[i], clock)]

\* the realization_time of row i of a list response
fetchedRealizationTime(outcome, predictions, i) ==
  IF i = Len(predictions) /\ outcome = "badformat" THEN "13/31/2024"
  ELSE IF i = Len(predictions) /\ outcome = "baddate" THEN "2024-13-31"
  ELSE IF i = Len(predictions) /\ outcome = "epoch" THEN "1970-01-01"
  ELSE realization_time(predictions[i])

\* createPredictionData computes the countdown, formats the date, then asks
\* the ledger
createPredictionDataThrows(outcome, predictions, i) ==
  \/ getCountdownDataThrows(fetchedRealizationTime(outcome, predictions, i),
                            predictions[i])
  \/ formatDateUSAThrows(fetchedRealizationTime(outcome, predictions, i))
  \/ hasVotedPredictionThrows(predictions[i])

listPredictionsThrows(outcome, predictions) ==
  \E i \in DOMAIN predictions : createPredictionDataThrows(outcome, predictions, i)

\* listPredictions that throws: no card is appended; the countdowns computed
\* up to the throw have marked the cards already in the document
listPredictionsThrown(d, outcome, predictions, clock) ==
  LET j == CHOOSE i \in DOMAIN predictions :
             /\ createPredictionDataThrows(outcome, predictions, i)
             /\ \A h \in 1 .. i - 1 : ~createPredictionDataThrows(outcome, predictions, h)
      gone == {predictions[i] : i \in
                 {h \in 1 .. j :
                    LET t == fetchedRealizationTime(outcome, predictions, h)
                    IN  /\ ~getCountdownDataThrows(t, predictions[h])
                        /\ ~getCountdownData(t, clock).next}}
  IN  expireAll(d, gone)

\* removeChildElements(predictionListEl): the cards leave the document; the
\* activations that hold one of them keep a detached element (card 0)
detach(as) == {[a EXCEPT !.card = 0] : a \in as}

(***************************************************************************)
(* Vote coordinator (events): eventHandlerFunction and handleClickVoteBtn. *)
(***************************************************************************)
\* checkEvent: a click handler is tracked for the list container
checkEvent(tracker) == tracker >= 1

\* a registration that does not look at the tracker (at most twice here)
addEvent_Again(tracker) == IF tracker < 2 THEN tracker + 1 ELSE tracker

\* addEvent with onceAdd: nothing is attached to a container that is
\* tracked already
addEvent(tracker) == IF checkEvent(tracker) THEN tracker ELSE tracker + 1

upTo2(n) == IF n < 2 THEN n + 1 ELSE 2
bump(f, k) == [f EXCEPT ![k] = upTo2(@)]

\* click on the vote button of card i whose data-vote-type is voteType;
\* only buttons that are not disabled deliver clicks, and those carry
\* data-prediction-id
eventHandlerFunction(i, voteType) ==
  /\ eventTracker >= 1
  /\ view = "list"
  /\ i \in DOMAIN dom
  /\ dom[i].btn = "enabled"
  /\ LET predictionId == dom[i].id IN
     IF ClickBlocked
     THEN UNCHANGED <<isActiveClick, actions>>
     ELSE IF hasVotedPrediction(predictionId)
     THEN /\ isActiveClick' = TRUE
          /\ UNCHANGED actions
     ELSE /\ isActiveClick' = TRUE
          /\ actions' = actions \cup
               {[id |-> predictionId, voteType |-> voteType, pc |-> "swing",
                 card |-> i, cur |-> NoVotes, body |-> NoVotes]}
  /\ UNCHANGED <<votesTable, cookie, localStorage, histVars, listVars, timeVars, peer>>

\* the end of handleClickVoteBtn and of the handler behind it: the result
\* is returned and the handler goes on to isActiveClick = false; an error
\* thrown out of handleClickVoteBtn would end the handler before that line
finish(a, threw) ==
  /\ actions' = actions \ {a}
  /\ lastResult' = handleClickVoteBtnResult(threw)
  /\ isActiveClick' = IF handleClickVoteBtnResult(threw) = "thrown"
                      THEN isActiveClick ELSE FALSE

\* an animation that ends on an element outside the document as well
animationEnds_Detached(a) == TRUE

\* addAnimation resolves on the element's animationend event, which an
\* element that has left the document never gets
animationEnds(a) == a.card # 0

\* the swing animation ends; handleClickVoteBtn calls getCurrentVotes
SwingEnd(a) ==
  /\ a \in actions /\ a.pc = "swing"
  /\ animationEnds(a)
  /\ actions' = (actions \ {a}) \cup {[a EXCEPT !.pc = "fetch"]}
  /\ UNCHANGED <<votesTable, cookie, localStorage, isActiveClick, histVars,
                 listVars, timeVars, peer>>

\* getCurrentVotes has no try/catch and returns no envelope: what
\* getFromTable throws and its own "data is empty" error reject the call
getCurrentVotesThrows(outcome) == outcome # "ok"

\* getCurrentVotes settles; updateVoteCount runs up to its await
getCurrentVotesDone(a, outcome) ==
  /\ a \in actions /\ a.pc = "fetch"
  /\ LET currentVotes == votesTable[a.id]
         threw == \/ getCurrentVotesThrows(outcome)
                  \/ updateVoteCountThrows(a.id, currentVotes, a.voteType)
     IN  IF threw
         THEN finish(a, TRUE)
         ELSE /\ actions' = (actions \ {a}) \cup
                   {[a EXCEPT !.pc = "lookup", !.cur = currentVotes,
                       !.body = increaseObjectValue(currentVotes, voteKey(a.voteType), 1)]}
              /\ UNCHANGED <<isActiveClick, lastResult>>
  /\ UNCHANGED <<votesTable, cookie, localStorage, written, acks, listVars, timeVars, peer>>

\* updateVotes: the votesId lookup settles; updateInTable is called
votesIdLookupDone(a, outcome) ==
  /\ a \in actions /\ a.pc = "lookup"
  /\ IF outcome # "ok"
     THEN /\ finish(a, TRUE)
          /\ UNCHANGED written
     ELSE /\ actions' = (actions \ {a}) \cup {[a EXCEPT !.pc = "update"]}
          /\ written' = written \cup {a.id}
          /\ UNCHANGED <<isActiveClick, lastResult>>
  /\ UNCHANGED <<votesTable, cookie, localStorage, acks, listVars, timeVars, peer>>

\* the vote buttons container of the action's card is redrawn
redrawVoteButtons(d, a, btn) ==
  IF a.card = 0 THEN d ELSE [d EXCEPT ![a.card].btn = btn]

\* updateInTable settles; the rest of handleClickVoteBtn runs up to the
\* bounceIn animation
updateVotesDone(a, outcome) ==
  /\ a \in actions /\ a.pc = "update"
  /\ votesTable' = IF updateApplied(outcome)
                   THEN [votesTable EXCEPT ![a.id] = a.body] ELSE votesTable
  /\ IF ~updateVotesIsSuccessful(outcome)
     THEN /\ finish(a, TRUE)
          /\ UNCHANGED <<cookie, localStorage, acks, dom>>
     ELSE /\ acks' = bump(acks, a.id)
          /\ cookie' = JSONstringify(addVotedPredictionId(a.id))
          /\ localStorage' = JSONstringify(addVotedPredictionId(a.id))
          /\ IF outcome = "ok"
             THEN \* the returned row is drawn as disabled buttons
                  /\ dom' = redrawVoteButtons(dom, a, "voted")
                  /\ actions' = (actions \ {a}) \cup {[a EXCEPT !.pc = "bounce"]}
                  /\ UNCHANGED <<isActiveClick, lastResult>>
             ELSE \* no row came back: the container is redrawn empty, no
                  \* counter element is found and addAnimation resolves at once
                  /\ dom' = redrawVoteButtons(dom, a, "none")
                  /\ finish(a, FALSE)
  /\ UNCHANGED <<written, view, loader, activeTags, tagDisabled, pending,
                 posts, eventTracker, timeVars, peer>>

\* the bounceIn animation ends
BounceEnd(a) ==
  /\ a \in actions /\ a.pc = "bounce"
  /\ animationEnds(a)
  /\ finish(a, FALSE)
  /\ UNCHANGED <<votesTable, cookie, localStorage, written, acks, listVars, timeVars, peer>>

(***************************************************************************)
(* A second page running the same vote coordinator against the same record *)
(* store: another tab of this browser profile (sameProfile: the two ledger *)
(* stores are shared) or another client (its ledger is its own).  Its list *)
(* was drawn while its ledger was empty and stays in its document; voted   *)
(* holds the ids whose buttons it has redrawn disabled.                    *)
(***************************************************************************)
IdlePeer(sameProfile) ==
  [sameProfile |-> sameProfile, isActiveClick |-> FALSE, pc |-> "idle",
   id |-> "", voteType |-> "", body |-> NoVotes, voted |-> {}]

\* a gate that the pages of a profile share
peerClickBlocked_SharedGate == peer.isActiveClick \/ isActiveClick

\* isActiveClick is a variable of the closure of the page's own handler
peerClickBlocked == peer.isActiveClick

\* hasVotedPrediction in the peer: the stores of the profile, or its own
peerHasVotedPrediction(predictionId) ==
  IF peer.sameProfile THEN hasVotedPrediction(predictionId)
  ELSE predictionId \in peer.voted

\* the peer's eventHandlerFunction up to its first await, the swing
\* animation
peerEventHandlerFunction(predictionId, voteType) ==
  /\ predictionId \notin peer.voted
  /\ peer' = IF peerClickBlocked THEN peer
             ELSE IF peerHasVotedPrediction(predictionId)
             THEN [peer EXCEPT !.isActiveClick = TRUE]
             ELSE [peer EXCEPT !.isActiveClick = TRUE, !.pc = "swing",
                               !.id = predictionId, !.voteType = voteType]
  /\ UNCHANGED <<voteVars, histVars, listVars, timeVars>>

\* the end of the peer's handleClickVoteBtn and of its handler behind it
peerFinish == [peer EXCEPT !.pc = "idle", !.isActiveClick = FALSE]

\* the swing animation ends in the peer's document, where the card stays;
\* its handleClickVoteBtn calls getCurrentVotes
peerSwingEnd ==
  /\ peer.pc = "swing"
  /\ peer' = [peer EXCEPT !.pc = "fetch"]
  /\ UNCHANGED <<voteVars, histVars, listVars, timeVars>>

\* the peer's getCurrentVotes settles; updateVoteCount runs up to its await
peerGetCurrentVotesDone(outcome) ==
  /\ peer.pc = "fetch"
  /\ peer' = IF \/ getCurrentVotesThrows(outcome)
                \/ updateVoteCountThrows(peer.id, votesTable[peer.id], peer.voteType)
             THEN peerFinish
             ELSE [peer EXCEPT !.pc = "lookup",
                     !.body = increaseObjectValue(votesTable[peer.id],
                                                  voteKey(peer.voteType), 1)]
  /\ UNCHANGED <<voteVars, histVars, listVars, timeVars>>

\* the peer's votesId lookup settles; updateInTable is called
peerVotesIdLookupDone(outcome) ==
  /\ peer.pc = "lookup"
  /\ peer' = IF outcome # "ok" THEN peerFinish
             ELSE [peer EXCEPT !.pc = "update"]
  /\ UNCHANGED <<voteVars, histVars, listVars, timeVars>>

\* the peer's updateInTable settles; the rest of its handleClickVoteBtn runs
\* up to the bounceIn animation
peerUpdateVotesDone(outcome) ==
  /\ peer.pc = "update"
  /\ votesTable' = IF updateApplied(outcome)
                   THEN [votesTable EXCEPT ![peer.id] = peer.body] ELSE votesTable
  /\ IF updateVotesIsSuccessful(outcome)
     THEN /\ peer' = IF outcome = "ok"
                     THEN [peer EXCEPT !.pc = "bounce", !.voted = @ \cup {peer.id}]
                     ELSE \* no counter element: addAnimation resolves at once
                          [peerFinish EXCEPT !.voted = @ \cup {peer.id}]
          /\ IF peer.sameProfile
             THEN /\ cookie' = JSONstringify(addVotedPredictionId(peer.id))
                  /\ localStorage' = JSONstringify(addVotedPredictionId(peer.id))
             ELSE UNCHANGED <<cookie, localStorage>>
     ELSE /\ peer' = peerFinish
          /\ UNCHANGED <<cookie, localStorage>>
  /\ UNCHANGED <<isActiveClick, actions, histVars, listVars, timeVars>>

\* the bounceIn animation ends in the peer's document
peerBounceEnd ==
  /\ peer.pc = "bounce"
  /\ peer' = peerFinish
  /\ UNCHANGED <<voteVars, histVars, listVars, timeVars>>

(***************************************************************************)
(* Countdown engine (features/countdown): startCountdowns, stopCountdowns. *)
(* A run is one setInterval timer with the closure of its startCountdowns  *)
(* call; current marks the timer whose handle store.globalCountdownInterval*)
(* holds.  emit, zero, late and again are history: the ticks of the run    *)
(* that built the zeroed countdown items of an id, those that drew them    *)
(* into the document, and the ticks that found the id past the margin (all *)
(* counted up to 2), and the ids a tick found running again after the run  *)
(* had built their zeroed countdown.                                       *)
(***************************************************************************)

\* a stopCountdowns that clears nothing
stopCountdowns_Nothing(rs) == rs

\* clearInterval(store.globalCountdownInterval)
stopCountdowns(rs) == SelectSeq(rs, LAMBDA r : ~r.current)

\* store.globalCountdownInterval = setInterval(...)
startCountdowns(rs, rawPredictions) ==
  Append([i \in DOMAIN rs |-> [rs[i] EXCEPT !.current = FALSE]],
         [preds |-> rawPredictions, ended |-> {}, current |-> TRUE,
          emit |-> NoCount, zero |-> NoCount, late |-> NoCount, again |-> {}])

\* the countdown items one run of the interval callback of r draws: the
\* countdown data of the tracked ids that are not in endedCountdowns
countdownItems(r, clock) ==
  [p \in {q \in SeqToSet(r.preds) : ~isEndedCountdown(r.ended, q)} |->
     getCountdownData(realization_time(p), clock)]

\* one run of the interval callback of run k
Tick(k) ==
  /\ k \in DOMAIN runs
  /\ LET r == runs[k]
         tracked == SeqToSet(r.preds)
         gone == {p \in tracked : ~getCountdownData(realization_time(p), now).next}
         drawn == DOMAIN countdownItems(r, now)
         marked == expireAll(dom, gone)
         \* the items are drawn into #countdown-items-container-<id> when
         \* the document holds one
         shown == {p \in drawn : FirstCard(dom, p) # 0}
     IN  /\ runs' = [runs EXCEPT
                ![k].ended = @ \cup (gone \cap drawn),
                ![k].emit = [p \in PredictionIds |->
                               IF p \in gone \cap drawn THEN upTo2(@[p]) ELSE @[p]],
                ![k].zero = [p \in PredictionIds |->
                               IF p \in gone \cap shown THEN upTo2(@[p]) ELSE @[p]],
                ![k].late = [p \in PredictionIds |->
                               IF p \in gone THEN upTo2(@[p]) ELSE @[p]],
                ![k].again = @ \cup ((tracked \ gone) \ drawn)]
         /\ dom' = [i \in DOMAIN marked |->
                      IF marked[i].id \in drawn /\ FirstCard(marked, marked[i].id) = i
                      THEN [marked[i] EXCEPT !.next = marked[i].id \notin gone]
                      ELSE marked[i]]
  /\ UNCHANGED <<voteVars, histVars, view, loader, activeTags, tagDisabled, pending,
                 posts, eventTracker, now, peer>>

InitNow ==
  getTimestampFromDateString(reviewed_predictions[1].realization_time)
    - 3 * (TickPeriodMs \div 2)

\* the wall clock moves on by half a period or a whole one
AdvanceClock(step) ==
  /\ now + step <= InitNow + MaxAdvance * (TickPeriodMs \div 2)
  /\ now' = now + step
  /\ UNCHANGED <<voteVars, histVars, listVars, runs, peer>>

\* new Date().getTime() is the wall clock of the machine: it can be set back
SetClockBack(step) ==
  /\ now - step >= InitNow
  /\ now' = now - step
  /\ UNCHANGED <<voteVars, histVars, listVars, runs, peer>>

(***************************************************************************)
(* List refresh orchestrator (features/predictions, routes, tags).         *)
(***************************************************************************)
TagButtons == SeqToSet(TAGS_DATA)

\* a lookup that finds no active button
getActiveTagBtn_None == ""

\* getElement("#tag-buttons-container .btn--active"): "" when there is none
getActiveTagBtn ==
  IF activeTags = {} THEN ""
  ELSE TAGS_DATA[CHOOSE i \in DOMAIN TAGS_DATA :
                   /\ TAGS_DATA[i] \in activeTags
                   /\ \A j \in DOMAIN TAGS_DATA : TAGS_DATA[j] \in activeTags => i <= j]

\* getPredictions / getPredictionsByTag("tag", tagQuery): the ids of the rows
getPredictionsByTag(tagQuery) ==
  LET rows == SelectSeq(reviewed_predictions,
                        LAMBDA row : tagQuery = "all" \/ row.tag = tagQuery)
  IN  [i \in DOMAIN rows |-> rows[i].id]

\* the fetches in flight are kept in a fixed order (by tag, then by origin):
\* any of them may settle next, so their order of issue carries nothing
FetchBefore(f, g) ==
  \/ f.clickedBtn = "" /\ g.clickedBtn # ""
  \/ f.clickedBtn # "" /\ g.clickedBtn # "" /\ f.tagQuery = "all" /\ g.tagQuery # "all"
  \/ f.tagQuery = g.tagQuery /\ f.clickedBtn = g.clickedBtn /\ f.viaEvent /\ ~g.viaEvent

Enqueue(q, f) ==
  LET n == Cardinality({i \in DOMAIN q : FetchBefore(q[i], f)})
  IN  [i \in 1 .. Len(q) + 1 |->
         IF i <= n THEN SelectSeq(q, LAMBDA g : FetchBefore(g, f))[i]
         ELSE IF i = n + 1 THEN f
         ELSE SelectSeq(q, LAMBDA g : ~FetchBefore(g, f))[i - n - 1]]

RemoveAt(s, k) == [i \in 1 .. Len(s) - 1 |-> IF i < k THEN s[i] ELSE s[i + 1]]

\* requests in flight and timers no handle refers to any more
InFlight(rs) == Len(pending) + posts + Len(stopCountdowns(rs))

\* one more list fetch keeps what is in flight within the bound, settled
\* being the requests that settle in the step
CanRefresh(settled) == InFlight(runs) - settled < MaxInFlight

\* fetchAndListPredictions up to its await
fetchAndListPredictions(fetch) ==
  /\ runs' = stopCountdowns(runs)
  /\ dom' = << >>
  /\ actions' = detach(actions)
  /\ loader' = TRUE
  /\ pending' = Enqueue(pending, fetch)

\* a refresh that takes every response for a list
isFetched_Always(outcome) == TRUE

\* fetchAndListPredictions: if (!isSuccessful) throw, caught and returned as
\* {isFetched: false}
isFetched(outcome) == outcome # "error"

\* the fetch of pending[k] settles: the rest of fetchAndListPredictions and
\* of filterPredictionsAfterClickTagButton behind it
fetchAndListPredictionsDone(k, outcome) ==
  /\ k \in DOMAIN pending
  /\ LET f == pending[k]
         predictions == getPredictionsByTag(f.tagQuery)
     IN  /\ pending' = RemoveAt(pending, k)
         /\ IF isFetched(outcome) /\ listPredictionsThrows(outcome, predictions)
            THEN \* the loader is hidden, then listPredictions throws into
                 \* the catch block: {isFetched: false}
                 /\ loader' = FALSE
                 /\ dom' = listPredictionsThrown(dom, outcome, predictions, now)
                 /\ tagDisabled' = tagDisabled \ {f.clickedBtn}
                 /\ UNCHANGED <<runs, eventTracker, activeTags>>
            ELSE IF isFetched(outcome)
            THEN /\ loader' = FALSE
                 /\ dom' = listPredictions(dom, predictions, now)
                 /\ runs' = startCountdowns(runs, predictions)
                 /\ eventTracker' = addEvent(eventTracker)
                 /\ IF f.clickedBtn = "" THEN UNCHANGED <<activeTags, tagDisabled>>
                    ELSE /\ activeTags' = (activeTags \ {getActiveTagBtn})
                                             \cup {f.clickedBtn}
                         /\ tagDisabled' = IF f.viaEvent
                                           THEN tagDisabled \ {f.clickedBtn}
                                           ELSE tagDisabled
            ELSE /\ tagDisabled' = tagDisabled \ {f.clickedBtn}
                 /\ UNCHANGED <<loader, dom, runs, eventTracker, activeTags>>
  /\ UNCHANGED <<voteVars, histVars, view, posts, now, peer>>

\* click on tag button t (handleClickTagButtons)
handleClickTagButtons(t) ==
  /\ t \in TagButtons \ activeTags
  /\ t \notin tagDisabled
  /\ CanRefresh(0)
  /\ view' = "list"
  /\ tagDisabled' = tagDisabled \cup {t}
  /\ fetchAndListPredictions([tagQuery |-> t, clickedBtn |-> t, viaEvent |-> TRUE])
  /\ UNCHANGED <<votesTable, cookie, localStorage, isActiveClick, histVars,
                 activeTags, posts, eventTracker, now, peer>>

\* click on the New Prediction button
goToNewPredictionForm ==
  /\ view' = "form"
  /\ runs' = stopCountdowns(runs)
  /\ dom' = << >>
  /\ actions' = detach(actions)
  /\ UNCHANGED <<votesTable, cookie, localStorage, isActiveClick, histVars, loader,
                 activeTags, tagDisabled, pending, posts, eventTracker, now, peer>>

\* a return to the list that always asks for the active tag
goToPredictionList_ActiveTag(isAll) ==
  /\ getActiveTagBtn # ""
  /\ view' = "list"
  /\ fetchAndListPredictions(
       [tagQuery |-> getActiveTagBtn, clickedBtn |-> getActiveTagBtn,
        viaEvent |-> FALSE])

\* goToPredictionList(options, isAll)
goToPredictionList(isAll) ==
  LET tagBtnEl == IF isAll THEN "all" ELSE getActiveTagBtn
  IN  /\ tagBtnEl # ""
      /\ view' = "list"
      /\ fetchAndListPredictions(
           [tagQuery |-> tagBtnEl, clickedBtn |-> tagBtnEl, viaEvent |-> FALSE])

\* click on the form's Cancel button
handleClickFormCancelButton ==
  /\ view = "form"
  /\ CanRefresh(0)
  /\ goToPredictionList(FALSE)
  /\ UNCHANGED <<votesTable, cookie, localStorage, isActiveClick, histVars,
                 activeTags, tagDisabled, posts, eventTracker, now, peer>>

\* submit of a valid form: postPrediction is awaited
handleSubmitPredictionForm ==
  /\ view = "form"
  /\ InFlight(runs) < MaxInFlight
  /\ posts' = posts + 1
  /\ UNCHANGED <<voteVars, histVars, dom, view, loader, activeTags, tagDisabled,
                 pending, eventTracker, timeVars, peer>>

\* postPrediction settles
postPredictionDone(outcome) ==
  /\ posts > 0
  /\ posts' = posts - 1
  /\ IF outcome = "ok"
     THEN /\ CanRefresh(1)
          /\ goToPredictionList(TRUE)
          /\ UNCHANGED <<votesTable, cookie, localStorage, isActiveClick>>
     ELSE UNCHANGED <<voteVars, dom, view, loader, pending, runs>>
  /\ UNCHANGED <<histVars, activeTags, tagDisabled, eventTracker, now, peer>>

(***************************************************************************)
(* The state after initApp: the layout is drawn, the first list fetch is   *)
(* in flight, the tag buttons are filled with "all" active.                *)
(***************************************************************************)
InitFor(clock, cookieItem, localStorageItem, peerPage) ==
  /\ peer = peerPage
  /\ votesTable = InitialVotes
  /\ cookie = cookieItem
  /\ localStorage = localStorageItem
  /\ eventTracker = 0
  /\ isActiveClick = FALSE
  /\ actions = {}
  /\ dom = << >>
  /\ view = "list"
  /\ loader = TRUE
  /\ activeTags = {"all"}
  /\ tagDisabled = {}
  /\ pending = << [tagQuery |-> "all", clickedBtn |-> "", viaEvent |-> FALSE] >>
  /\ posts = 0
  /\ runs = << >>
  /\ now = clock
  /\ written = {}
  /\ acks = NoCount
  /\ lastResult = "none"

\* the peer a tab of the same profile, idle throughout unless the
\* specification lets it act
InitWith(clock, cookieItem, localStorageItem) ==
  InitFor(clock, cookieItem, localStorageItem, IdlePeer(TRUE))

\* a first visit: neither ledger store holds anything
InitAt(clock) == InitWith(clock, NoItem, NoItem)

Init == InitAt(InitNow)

Next ==
  \/ \E i \in 1 .. Len(dom), voteType \in VoteTypeAttrs : eventHandlerFunction(i, voteType)
  \/ \E a \in actions : SwingEnd(a)
  \/ \E a \in actions, outcome \in SelectOutcomes : getCurrentVotesDone(a, outcome)
  \/ \E a \in actions, outcome \in SelectOutcomes : votesIdLookupDone(a, outcome)
  \/ \E a \in actions, outcome \in UpdateOutcomes : updateVotesDone(a, outcome)
  \/ \E a \in actions : BounceEnd(a)
  \/ \E k \in 1 .. Len(pending), outcome \in ListOutcomes :
       fetchAndListPredictionsDone(k, outcome)
  \/ \E t \in TagButtons : handleClickTagButtons(t)
  \/ goToNewPredictionForm
  \/ handleClickFormCancelButton
  \/ handleSubmitPredictionForm
  \/ \E outcome \in CallOutcomes : postPredictionDone(outcome)
  \/ \E k \in 1 .. Len(runs) : Tick(k)
  \/ \E step \in {TickPeriodMs \div 2, TickPeriodMs} : AdvanceClock(step)
  \/ \E step \in {TickPeriodMs \div 2, TickPeriodMs} : SetClockBack(step)

Spec == Init /\ [][Next]_vars

(***************************************************************************)
(* The vote coordinator with the list refreshes and the navigation, the    *)
(* clock standing still.                                                   *)
(***************************************************************************)
NextVote ==
  \/ \E i \in 1 .. Len(dom), voteType \in VoteTypeAttrs : eventHandlerFunction(i, voteType)
  \/ \E a \in actions : SwingEnd(a)
  \/ \E a \in actions, outcome \in SelectOutcomes : getCurrentVotesDone(a, outcome)
  \/ \E a \in actions, outcome \in SelectOutcomes : votesIdLookupDone(a, outcome)
  \/ \E a \in actions, outcome \in UpdateOutcomes : updateVotesDone(a, outcome)
  \/ \E a \in actions : BounceEnd(a)
  \/ \E k \in 1 .. Len(pending), outcome \in ListOutcomes :
       fetchAndListPredictionsDone(k, outcome)
  \/ \E t \in TagButtons : handleClickTagButtons(t)
  \/ goToNewPredictionForm
  \/ handleClickFormCancelButton
  \/ handleSubmitPredictionForm
  \/ \E outcome \in CallOutcomes : postPredictionDone(outcome)

SpecVote == Init /\ [][NextVote]_vars

\* the same, with every animation that can end ending and every call to
\* the record store of a vote settling
VoteFairness ==
  /\ WF_vars(\E a \in actions : SwingEnd(a))
  /\ WF_vars(\E a \in actions, outcome \in SelectOutcomes : getCurrentVotesDone(a, outcome))
  /\ WF_vars(\E a \in actions, outcome \in SelectOutcomes : votesIdLookupDone(a, outcome))
  /\ WF_vars(\E a \in actions, outcome \in UpdateOutcomes : updateVotesDone(a, outcome))
  /\ WF_vars(\E a \in actions : BounceEnd(a))

SpecVoteFair == SpecVote /\ VoteFairness

(***************************************************************************)
(* The countdown engine with the list refreshes and the navigation, no     *)
(* vote being cast.                                                        *)
(***************************************************************************)
NextCountdown ==
  \/ \E k \in 1 .. Len(pending), outcome \in ListOutcomes :
       fetchAndListPredictionsDone(k, outcome)
  \/ \E t \in TagButtons : handleClickTagButtons(t)
  \/ goToNewPredictionForm
  \/ handleClickFormCancelButton
  \/ handleSubmitPredictionForm
  \/ \E outcome \in CallOutcomes : postPredictionDone(outcome)
  \/ \E k \in 1 .. Len(runs) : Tick(k)
  \/ \E step \in {TickPeriodMs \div 2, TickPeriodMs} : AdvanceClock(step)
  \/ \E step \in {TickPeriodMs \div 2, TickPeriodMs} : SetClockBack(step)

SpecCountdown == Init /\ [][NextCountdown]_vars

(***************************************************************************)
(* Two pages voting: this tab with its first list, and the peer, which is  *)
(* another tab of the profile or another client.                           *)
(***************************************************************************)
InitPeers ==
  \E sameProfile \in BOOLEAN : InitFor(InitNow, NoItem, NoItem, IdlePeer(sameProfile))

NextPeers ==
  \/ \E i \in 1 .. Len(dom), voteType \in validVoteTypes : eventHandlerFunction(i, voteType)
  \/ \E a \in actions : SwingEnd(a)
  \/ \E a \in actions, outcome \in SelectOutcomes : getCurrentVotesDone(a, outcome)
  \/ \E a \in actions, outcome \in SelectOutcomes : votesIdLookupDone(a, outcome)
  \/ \E a \in actions, outcome \in UpdateOutcomes : updateVotesDone(a, outcome)
  \/ \E a \in actions : BounceEnd(a)
  \/ \E k \in 1 .. Len(pending), outcome \in CallOutcomes :
       fetchAndListPredictionsDone(k, outcome)
  \/ \E predictionId \in PredictionIds, voteType \in validVoteTypes :
       peerEventHandlerFunction(predictionId, voteType)
  \/ peerSwingEnd
  \/ \E outcome \in SelectOutcomes : peerGetCurrentVotesDone(outcome)
  \/ \E outcome \in SelectOutcomes : peerVotesIdLookupDone(outcome)
  \/ \E outcome \in UpdateOutcomes : peerUpdateVotesDone(outcome)
  \/ peerBounceEnd

SpecPeers == InitPeers /\ [][NextPeers]_vars

(***************************************************************************)
(* Vote clicks on a list whose countdowns run out: the tag refreshes, the  *)
(* ticks and the clock, and the clicks with the steps that follow them.    *)
(***************************************************************************)
NextExpiry ==
  \/ \E i \in 1 .. Len(dom), voteType \in validVoteTypes : eventHandlerFunction(i, voteType)
  \/ \E a \in actions : SwingEnd(a)
  \/ \E a \in actions, outcome \in SelectOutcomes : getCurrentVotesDone(a, outcome)
  \/ \E a \in actions, outcome \in SelectOutcomes : votesIdLookupDone(a, outcome)
  \/ \E a \in actions, outcome \in UpdateOutcomes : updateVotesDone(a, outcome)
  \/ \E a \in actions : BounceEnd(a)
  \/ \E k \in 1 .. Len(pending), outcome \in ListOutcomes :
       fetchAndListPredictionsDone(k, outcome)
  \/ \E t \in TagButtons : handleClickTagButtons(t)
  \/ \E k \in 1 .. Len(runs) : Tick(k)
  \/ \E step \in {TickPeriodMs \div 2, TickPeriodMs} : AdvanceClock(step)

SpecExpiry == Init /\ [][NextExpiry]_vars

(***************************************************************************)
(* The vote ledger over a range of stored values: the tab is opened with   *)
(* each of the two stores empty, holding a list the ledger has written, or *)
(* holding a text that is not JSON; ids are recorded and lists are         *)
(* rendered from it.                                                       *)
(***************************************************************************)
MaxLedgerLen == 3

\* the lists without repetition of at most two ids
StoredLists ==
  {<< >>} \cup {<<p>> : p \in PredictionIds}
          \cup {pair \in PredictionIds \X PredictionIds : pair[1] # pair[2]}

LedgerItems == {NoItem, Unparsable} \cup {JSONstringify(idList) : idList \in StoredLists}

\* a call of addVotedPredictionId(predictionId): the list is read, then
\* the cookie and the local store are written; a throw in the read leaves
\* both as they are
callAddVotedPredictionId(predictionId) ==
  /\ Len(getVotedPredictionIds) < MaxLedgerLen
  /\ IF addVotedPredictionIdThrows
     THEN UNCHANGED <<cookie, localStorage>>
     ELSE /\ cookie' = JSONstringify(addVotedPredictionId(predictionId))
          /\ localStorage' = JSONstringify(addVotedPredictionId(predictionId))
  /\ UNCHANGED <<votesTable, isActiveClick, actions, histVars, listVars, timeVars, peer>>

InitLedger ==
  \E cookieItem \in LedgerItems, localStorageItem \in LedgerItems :
    InitWith(InitNow, cookieItem, localStorageItem)

NextLedger ==
  \/ \E predictionId \in PredictionIds : callAddVotedPredictionId(predictionId)
  \/ \E k \in 1 .. Len(pending), outcome \in ListOutcomes :
       fetchAndListPredictionsDone(k, outcome)
  \/ \E t \in TagButtons : handleClickTagButtons(t)

SpecLedger == InitLedger /\ [][NextLedger]_vars

(***************************************************************************)
(* The ledger of a profile whose two stores hold the list the ledger wrote *)
(* last: ids are recorded directly and by votes, lists are refreshed, and  *)
(* the browser or the user drops one of the two stores while the other     *)
(* still holds its text.                                                   *)
(***************************************************************************)
\* the pids cookie runs out (it is written with an expiry date) or is deleted
ExpireCookie ==
  /\ cookie.present /\ localStorage.present
  /\ cookie' = NoItem
  /\ UNCHANGED <<votesTable, localStorage, isActiveClick, actions, histVars,
                 listVars, timeVars, peer>>

\* the site's local storage is emptied
ClearLocalStorage ==
  /\ cookie.present /\ localStorage.present
  /\ localStorage' = NoItem
  /\ UNCHANGED <<votesTable, cookie, isActiveClick, actions, histVars,
                 listVars, timeVars, peer>>

InitDurable ==
  \E idList \in StoredLists :
    InitWith(InitNow, JSONstringify(idList), JSONstringify(idList))

NextDurable ==
  \/ \E predictionId \in PredictionIds : callAddVotedPredictionId(predictionId)
  \/ ExpireCookie
  \/ ClearLocalStorage
  \/ \E i \in 1 .. Len(dom), voteType \in {"up"} : eventHandlerFunction(i, voteType)
  \/ \E a \in actions : SwingEnd(a)
  \/ \E a \in actions, outcome \in SelectOutcomes : getCurrentVotesDone(a, outcome)
  \/ \E a \in actions, outcome \in SelectOutcomes : votesIdLookupDone(a, outcome)
  \/ \E a \in actions, outcome \in UpdateOutcomes : updateVotesDone(a, outcome)
  \/ \E a \in actions : BounceEnd(a)
  \/ \E k \in 1 .. Len(pending), outcome \in CallOutcomes :
       fetchAndListPredictionsDone(k, outcome)
  \/ \E t \in TagButtons : handleClickTagButtons(t)

SpecDurable == InitDurable /\ [][NextDurable]_vars

(***************************************************************************)
(* The countdown arithmetic over a range of remaining times: the tab is    *)
(* opened at a clock value that leaves the first prediction one of the     *)
(* sampled remaining times (the second one a day more), and the clock      *)
(* stands still while the list is refreshed and the runs tick.             *)
(***************************************************************************)
RemainingSamples ==
  {-3600000, -1, 0, 1, 500, 999, 1000, 1001, 1999, 59999, 60000, 61000,
   3599999, 3600000, 3661000, 86399999, 86400000, 90061000, 259199999}

InitUnits ==
  \E remaining \in RemainingSamples :
    InitAt(getTimestampFromDateString(reviewed_predictions[1].realization_time)
             - remaining)

NextUnits ==
  \/ \E k \in 1 .. Len(pending), outcome \in ListOutcomes :
       fetchAndListPredictionsDone(k, outcome)
  \/ \E t \in TagButtons : handleClickTagButtons(t)
  \/ goToNewPredictionForm
  \/ handleClickFormCancelButton
  \/ handleSubmitPredictionForm
  \/ \E outcome \in CallOutcomes : postPredictionDone(outcome)
  \/ \E k \in 1 .. Len(runs) : Tick(k)

SpecUnits == InitUnits /\ [][NextUnits]_vars

(***************************************************************************)
(* Properties.                                                             *)
(***************************************************************************)
LedgerHas(predictionId) == predictionId \in SeqToSet(getVotedPredictionIds)

\* a click on the vote button of card i can be delivered
Clickable(i) ==
  /\ eventTracker >= 1 /\ view = "list"
  /\ i \in DOMAIN dom /\ dom[i].btn = "enabled"

\* the step ends action a without a confirmed write
Fails(a) ==
  /\ a \in actions /\ actions' = actions \ {a}
  /\ a.pc \in {"fetch", "lookup", "update"}
  /\ acks' = acks

\* C1 (as stated): the record store receives at most one vote-count write per
\* prediction id: no updateInTable call is issued for an id that one has
\* been issued for before.
C1_OneWriteIssued ==
  [][\A a \in actions :
       votesIdLookupDone(a, "ok") => a.id \notin written]_vars

\* C1 (amended): for every prediction id at most one vote-count write is
\* reported back to the client as successful, over any sequence of vote
\* clicks, refreshes, tag changes, navigation and store failures.
C1_OneConfirmedWrite == \A p \in PredictionIds : acks[p] <= 1

\* a confirmed vote whose id is on the list again with live vote buttons
C1_Witness ==
  \E i \in DOMAIN dom : Clickable(i) /\ acks[dom[i].id] = 1 /\ ~isActiveClick


\* C2: at most one vote action is in flight at any time and it holds the
\* gate, so a click that arrives while it is in flight starts nothing and
\* two rapid clicks issue one vote-count write.
C2_OneActionInFlight ==
  /\ Cardinality(actions) <= 1
  /\ actions # {} => isActiveClick

\* a vote action waits for its delayed store write while a vote button of
\* the list can take a click
C2_Witness ==
  /\ \E a \in actions : a.pc = "update"
  /\ \E i \in DOMAIN dom : Clickable(i)

\* C3: a vote click handled while its prediction id is in the ledger starts
\* no vote action; no store read or write is issued and the stored counts
\* and the ledger stay as they are.
C3_VotedClickAborts ==
  [][\A i \in DOMAIN dom, voteType \in VoteTypeAttrs :
       (eventHandlerFunction(i, voteType) /\ LedgerHas(dom[i].id))
       => /\ actions' = actions
          /\ written' = written
          /\ votesTable' = votesTable
          /\ cookie' = cookie /\ localStorage' = localStorage]_vars

\* a click has been aborted: the gate is taken and no action is in flight
C3_Witness ==
  /\ isActiveClick /\ actions = {}
  /\ \E p \in PredictionIds : LedgerHas(p)

\* C4 (as stated): a prediction id is in the ledger only after the
\* vote-count write for it has been applied to its row in the store.
C4_LedgerAfterWrite ==
  \A p \in PredictionIds : LedgerHas(p) => votesTable[p] # InitialVotes[p]

\* C5: the pair a vote action writes is the pair it fetched with the count
\* of its vote type one higher and the other count unchanged, and that pair
\* is what the store holds after the write.
C5_WrittenPair ==
  \A a \in actions :
    a.pc \in {"lookup", "update", "bounce"} =>
      /\ a.body.up_count = a.cur.up_count + (IF a.voteType = "up" THEN 1 ELSE 0)
      /\ a.body.down_count = a.cur.down_count + (IF a.voteType = "down" THEN 1 ELSE 0)
      /\ a.pc = "bounce" => votesTable[a.id] = a.body

\* {3,1} fetched, voted up, {4,1} written
C5_Witness ==
  \E a \in actions :
    /\ a.pc = "bounce" /\ a.voteType = "up"
    /\ a.cur = [up_count |-> 3, down_count |-> 1]
    /\ votesTable[a.id] = [up_count |-> 4, down_count |-> 1]

\* C6: a vote action whose vote type is neither up nor down fails: it is
\* never at a step that writes to the store or adds to the ledger, because
\* the step that takes the fetched counts ends it with the failure result,
\* the store and the ledger as they were.
C6_InvalidTypeFails ==
  [][\A a \in actions :
       a.voteType \notin validVoteTypes
       => /\ a.pc \in {"swing", "fetch"}
          /\ \A outcome \in SelectOutcomes :
               getCurrentVotesDone(a, outcome)
               => /\ actions' = actions \ {a}
                  /\ lastResult' = "failed"
                  /\ written' = written /\ votesTable' = votesTable
                  /\ cookie' = cookie /\ localStorage' = localStorage]_vars

\* a vote action with another vote type has read the current counts and is
\* about to take them
C6_Witness ==
  \E a \in actions : a.voteType \notin validVoteTypes /\ a.pc = "fetch" /\ written = {}

\* C7 (as stated): an invalid vote type is rejected before any store call:
\* no vote action with such a type gets to the read of the current counts.
C7_RejectedBeforeStoreCall ==
  \A a \in actions : a.voteType \notin validVoteTypes => a.pc = "swing"

\* C8: the step that fails a vote action (read failed, write rejected)
\* releases the gate, leaves the prediction out of the ledger and the vote
\* buttons of its card, unless the card has expired meanwhile, live, so the
\* next click on them starts a new vote sequence.
C8_FailedVoteRetryable ==
  [][\A a \in actions :
       Fails(a) => /\ ~isActiveClick'
                   /\ ~LedgerHas(a.id)'
                   /\ (a.card # 0 /\ ~dom[a.card].expired) => Clickable(a.card)']_vars

\* the retry: a vote action in flight for an id whose earlier write failed
C8_Witness ==
  \E a \in actions : a.id \in written /\ a.pc \in {"swing", "fetch"} /\ acks[a.id] = 0

\* C9 (as stated): a write that settles without an updated row, rejected
\* or matching no row, fails the vote action and leaves the ledger as it is.
C9_NoRowFails ==
  [][\A a \in actions, outcome \in UpdateOutcomes :
       (updateVotesDone(a, outcome) /\ votesTable' = votesTable)
       => /\ lastResult' = "failed"
          /\ cookie' = cookie /\ localStorage' = localStorage]_vars

\* C10: in one countdown run the zeroed breakdown of a tracked prediction is
\* built for drawing on one tick, the first that finds less than the margin
\* remaining, and on no later tick; it is drawn into the document at most
\* once, and only on that tick.
C10_ExpiredOncePerRun ==
  \A k \in DOMAIN runs : \A p \in SeqToSet(runs[k].preds) :
    /\ runs[k].emit[p] <= 1
    /\ runs[k].emit[p] = 1 <=> runs[k].late[p] >= 1
    /\ runs[k].emit[p] = 1 <=> p \in runs[k].ended
    /\ runs[k].zero[p] <= runs[k].emit[p]

\* a run has ticked twice past the deadline of a prediction
C10_Witness ==
  \E k \in DOMAIN runs : \E p \in SeqToSet(runs[k].preds) :
    runs[k].emit[p] = 1 /\ runs[k].zero[p] = 1 /\ runs[k].late[p] = 2

\* C11: expiry is monotone within a run: once a run has built the zeroed
\* countdown of a prediction, the countdown items that a tick of the run
\* draws hold no running countdown for it, whatever the clock says.
C11_NeverUnexpires ==
  \A k \in DOMAIN runs : \A p \in SeqToSet(runs[k].preds) :
    runs[k].emit[p] >= 1 =>
      \/ p \notin DOMAIN countdownItems(runs[k], now)
      \/ ~countdownItems(runs[k], now)[p].next

\* a tick has found a prediction running again after its run drew it expired
C11_Witness ==
  \E k \in DOMAIN runs : \E p \in runs[k].again : runs[k].emit[p] = 1

\* the time left to the deadline of a prediction
remainingMs(predictionId) ==
  getTimestampFromDateString(realization_time(predictionId)) - now

\* C12: what a tick reports for a prediction with less than 1000 ms left is
\* the breakdown {0,0,0,0} with hasNext false, and for one with 1000 ms or
\* more left a breakdown with hasNext true; a run that has ticked with
\* less than 1000 ms left has built the zeroed breakdown.
C12_ExpiredUnderMargin ==
  \A k \in DOMAIN runs : \A p \in SeqToSet(runs[k].preds) :
    /\ p \in DOMAIN countdownItems(runs[k], now) =>
         LET item == countdownItems(runs[k], now)[p]
         IN  /\ remainingMs(p) < 1000 =>
                  /\ item.units = [days |-> 0, hours |-> 0, minutes |-> 0, seconds |-> 0]
                  /\ ~item.next
             /\ remainingMs(p) >= 1000 => item.next
    /\ runs[k].late[p] >= 1 <=> (remainingMs(p) < 1000 /\ runs[k].emit[p] = 1)

\* a deadline 500 ms ahead, drawn expired by the one tick the run has had
C12_Witness ==
  \E k \in DOMAIN runs : \E p \in SeqToSet(runs[k].preds) :
    remainingMs(p) = 500 /\ runs[k].emit[p] = 1 /\ runs[k].zero[p] = 1
      /\ runs[k].late[p] = 1

\* C13: for 1000 ms or more left the reported days, hours, minutes and
\* seconds add up to the whole seconds left, hours below 24, minutes and
\* seconds below 60.
C13_BreakdownAddsUp ==
  \A k \in DOMAIN runs : \A p \in DOMAIN countdownItems(runs[k], now) :
    remainingMs(p) >= 1000 =>
      LET u == countdownItems(runs[k], now)[p].units
      IN  /\ u.days * 86400 + u.hours * 3600 + u.minutes * 60 + u.seconds
               = remainingMs(p) \div 1000
          /\ u.days >= 0
          /\ 0 <= u.hours /\ u.hours < 24
          /\ 0 <= u.minutes /\ u.minutes < 60
          /\ 0 <= u.seconds /\ u.seconds < 60

\* 90061000 ms left are reported as 1 day, 1 hour, 1 minute, 1 second
C13_Witness ==
  \E k \in DOMAIN runs : \E p \in DOMAIN countdownItems(runs[k], now) :
    /\ remainingMs(p) = 90061000
    /\ countdownItems(runs[k], now)[p] =
         [units |-> [days |-> 1, hours |-> 1, minutes |-> 1, seconds |-> 1],
          next |-> TRUE]

\* the ids of the cards in the list container
Rendered == {dom[i].id : i \in DOMAIN dom}

\* C14 (as stated): at most one countdown interval is ticking, and the
\* stored handle refers to every interval that is.
C14_OneInterval ==
  /\ Len(runs) <= 1
  /\ \A k \in DOMAIN runs : runs[k].current

\* C15 (as stated): every countdown run ticks over exactly the predictions
\* rendered in the list container.
C15_RunOverRenderedList ==
  \A k \in DOMAIN runs : SeqToSet(runs[k].preds) = Rendered

\* C16 (as stated): while the form is shown no countdown run is alive and
\* the list container is empty.
C16_FormViewIsQuiet ==
  view = "form" => (runs = << >> /\ dom = << >>)

\* C17: stopCountdowns is safe in every state: a step that calls it with
\* no interval under the handle leaves the runs as they are, and one that
\* calls it with an interval under the handle removes that run and no
\* other, so that none of its ticks can fire afterwards.
C17_StopCountdownsSafe ==
  [][goToNewPredictionForm =>
       /\ view' = "form" /\ dom' = << >>
       /\ \A k \in DOMAIN runs' : ~runs'[k].current
       /\ runs' = SelectSeq(runs, LAMBDA r : ~r.current)
       /\ (\A k \in DOMAIN runs : ~runs[k].current) => runs' = runs
       /\ (\E k \in DOMAIN runs : runs[k].current) => Len(runs') = Len(runs) - 1]_vars

\* the form is shown after the last refresh drew its list: the run it
\* started has been stopped
C17_Witness ==
  view = "form" /\ ~loader /\ pending = << >> /\ runs = << >> /\ dom = << >>

\* C18: a refresh whose fetch fails returns to its caller (the clicked tag
\* button is enabled again), issues no other fetch, adds nothing to the
\* list container and starts no countdown run.
C18_FailedRefresh ==
  [][\A k \in DOMAIN pending :
       fetchAndListPredictionsDone(k, "error") =>
         /\ pending' = RemoveAt(pending, k)
         /\ dom' = dom
         /\ runs' = runs
         /\ pending[k].clickedBtn \notin tagDisabled']_vars

\* the only refresh has failed: nothing in flight, nothing drawn, no run
C18_Witness ==
  pending = << >> /\ posts = 0 /\ loader /\ dom = << >> /\ runs = << >> /\ view = "list"

\* C19 (as stated): a refresh whose fetch fails leaves the loading indicator
\* hidden and the list empty.
C19_FailedRefreshHidesLoader ==
  [][\A k \in DOMAIN pending :
       fetchAndListPredictionsDone(k, "error") => (~loader' /\ dom' = << >>)]_vars

\* C20: a tag-scoped refresh that succeeds leaves the clicked button the one
\* active button, enabled again if it was clicked; one that fails leaves
\* the active buttons as they were and the clicked button enabled.
C20_TagButtonsSettled ==
  [][\A k \in DOMAIN pending : \A outcome \in CallOutcomes :
       (fetchAndListPredictionsDone(k, outcome) /\ pending[k].clickedBtn # "") =>
         IF outcome = "ok"
         THEN /\ activeTags' = {pending[k].clickedBtn}
              /\ pending[k].viaEvent => pending[k].clickedBtn \notin tagDisabled'
         ELSE /\ activeTags' = activeTags
              /\ pending[k].clickedBtn \notin tagDisabled']_vars

\* the refresh of a clicked tag button has succeeded
C20_Witness ==
  /\ activeTags = {"politics"} /\ tagDisabled = {}
  /\ pending = << >> /\ ~loader /\ Rendered = {"p1"}

\* the refresh a return from the form asks for
NavFetch(tag) == [tagQuery |-> tag, clickedBtn |-> tag, viaEvent |-> FALSE]

\* C21: leaving the form asks for exactly one list refresh: for the tag
\* that is active on Cancel, for "all" after a submission that succeeded;
\* a submission that failed asks for none and stays on the form.
C21_LeaveFormRefreshesOnce ==
  [][/\ handleClickFormCancelButton =>
          /\ view' = "list"
          /\ \E t \in activeTags : pending' = Enqueue(pending, NavFetch(t))
     /\ \A outcome \in CallOutcomes :
          postPredictionDone(outcome) =>
            IF outcome = "ok"
            THEN /\ view' = "list"
                 /\ pending' = Enqueue(pending, NavFetch("all"))
            ELSE pending' = pending /\ view' = view]_vars

\* a submission has succeeded while "politics" was the active tag: the one
\* refresh in flight is the one for "all"
C21_Witness ==
  /\ view = "list" /\ activeTags = {"politics"} /\ posts = 0
  /\ pending = << NavFetch("all") >> /\ loader /\ dom = << >>

\* C22: an id that has just been recorded is found by the lookup, whatever
\* the two stores held before, as long as the read of them did not throw;
\* this covers the second of two calls as well as the first.
C22_RecordedIsVoted ==
  [][\A predictionId \in PredictionIds :
       (callAddVotedPredictionId(predictionId) /\ ~addVotedPredictionIdThrows) =>
         hasVotedPrediction(predictionId)']_vars

\* "p1" has been recorded twice on top of a ledger that held "p2"
C22_Witness ==
  /\ getVotedPredictionIds = <<"p2", "p1", "p1">>
  /\ hasVotedPrediction("p1")

\* C23: no store ever holds a list with the same id in two places.
C23_NoDuplicateIds ==
  \A item \in {cookie, localStorage} :
    \A i, j \in DOMAIN JSONparse(item) :
      JSONparse(item)[i] = JSONparse(item)[j] => i = j

\* the list a record call starts from, spelled out: the cookie's if there
\* is one, else the local store's, else the empty list
PriorList ==
  IF cookie.present THEN cookie.ids
  ELSE IF localStorage.present THEN localStorage.ids
  ELSE << >>

\* C24: a record call that does not throw writes the list read with the
\* cookie first, with the id appended, to the cookie and to the local
\* store alike.
C24_SameListInBothStores ==
  [][\A predictionId \in PredictionIds :
       (callAddVotedPredictionId(predictionId) /\ ~addVotedPredictionIdThrows) =>
         /\ cookie' = localStorage'
         /\ cookie'.present /\ cookie'.parses
         /\ cookie'.ids = Append(PriorList, predictionId)]_vars

\* three ids have been recorded, and both stores hold the three
C24_Witness ==
  /\ cookie = localStorage
  /\ cookie.present /\ Len(cookie.ids) = MaxLedgerLen

\* C25: the lookup of the empty id answers no and does not throw, whatever
\* the stores hold: it returns before it reads them.
C25_EmptyIdIsNotVoted ==
  /\ ~hasVotedPrediction("")
  /\ ~hasVotedPredictionThrows("")

\* the cookie holds a text that is not JSON: a read of the ledger would throw
C25_Witness ==
  /\ cookie = Unparsable
  /\ hasVotedPredictionThrows("p1")
  /\ ~hasVotedPredictionThrows("")

\* C26: when the store the ledger is read from (the cookie, or the local
\* store if there is no cookie) holds a text that is not JSON, the lookup
\* of an id does not throw and answers no.
C26_UnparsableIsEmpty ==
  \A predictionId \in PredictionIds :
    (cookie = Unparsable \/ (~cookie.present /\ localStorage = Unparsable)) =>
      /\ ~hasVotedPredictionThrows(predictionId)
      /\ ~hasVotedPrediction(predictionId)

\* C27: a realization date that is not in YYYY-MM-DD form, or is in that
\* form and no date, makes the countdown computation throw; a list response
\* with such a row appends no card and starts no countdown run.
C27_BadDateFails ==
  /\ \A predictionId \in PredictionIds :
       /\ getCountdownDataThrows("13/31/2024", predictionId)
       /\ getCountdownDataThrows("2024-13-31", predictionId)
  /\ [][\A k \in DOMAIN pending : \A outcome \in {"badformat", "baddate"} :
          fetchAndListPredictionsDone(k, outcome) =>
            /\ Len(dom') = Len(dom)
            /\ runs' = runs]_vars

\* a response with a date that is none has been taken after the first list
\* was drawn: no card, no run, the loader hidden
C27_Witness ==
  /\ view = "list" /\ dom = << >> /\ pending = << >> /\ ~loader
  /\ runs = << >> /\ activeTags = {"all"} /\ eventTracker = 1

\* C28: the read of the current counts never settles by throwing to the
\* vote handler, whatever the record store answers.
C28_NoThrowFromStore ==
  [][\A a \in actions : \A outcome \in SelectOutcomes :
       getCurrentVotesDone(a, outcome) => ~getCurrentVotesThrows(outcome)]_vars

\* C29: a run sends the mark-expired signal for a prediction on one tick
\* only: the ticks after the one that ended its countdown leave it alone.
C29_ExpiredIsSkipped ==
  \A k \in DOMAIN runs : \A p \in PredictionIds : runs[k].late[p] <= 1

\* C30: a vote action that holds the gate is followed by a state in which
\* the gate is free, the list being refreshed or cleared meanwhile or not.
C30_GateReleased == (actions # {}) ~> ~isActiveClick

\* C31 (as stated): no click starts a vote action for a prediction that a
\* card of the list shows as expired.
C31_ExpiredNotVotable ==
  [][\A i \in DOMAIN dom : \A voteType \in VoteTypeAttrs :
       (eventHandlerFunction(i, voteType) /\ actions' # actions) =>
         ~\E j \in DOMAIN dom : dom[j].id = dom[i].id /\ dom[j].expired]_vars

\* C32: with the peer a tab of the same profile, the ledger holds an id
\* only once a write for it has been acknowledged to one of the tabs, and
\* a click of the peer on a prediction the ledger does not hold can start a
\* vote whenever the peer's own gate is free, whatever this tab has in
\* flight; so a click in each tab before either acknowledgement starts a
\* vote in each.
C32_TabsCheckSeparately ==
  \A p \in PredictionIds :
    /\ (peer.sameProfile /\ hasVotedPrediction(p)) =>
         (acks[p] >= 1 \/ p \in peer.voted)
    /\ (/\ peer.sameProfile /\ ~peer.isActiveClick
        /\ p \notin peer.voted /\ ~hasVotedPrediction(p)) =>
         ENABLED (peerEventHandlerFunction(p, "up") /\ peer'.pc = "swing")

\* both tabs have had a write for "p1" acknowledged and have recorded it
C32_Witness ==
  /\ peer.sameProfile
  /\ acks["p1"] >= 1 /\ "p1" \in peer.voted
  /\ getVotedPredictionIds = <<"p1", "p1">>
  /\ votesTable["p1"].up_count + votesTable["p1"].down_count
       = InitialVotes["p1"].up_count + InitialVotes["p1"].down_count + 1

\* C33: however many lists have been drawn into the container, at most one
\* click handler is attached to it, exactly one once a list has been drawn,
\* and a click starts at most one vote action.
C33_OneClickHandler ==
  /\ [](eventTracker <= 1)
  /\ [](dom # << >> => eventTracker = 1)
  /\ [][\A i \in DOMAIN dom : \A voteType \in VoteTypeAttrs :
          eventHandlerFunction(i, voteType) =>
            Cardinality(actions') <= Cardinality(actions) + 1]_vars

\* a second list has been drawn into the container (the refresh of the
\* "politics" button), and a click on it has started a vote
C33_Witness ==
  /\ eventTracker = 1 /\ activeTags = {"politics"} /\ pending = << >>
  /\ Rendered = {"p1"} /\ Len(dom) = 1
  /\ \E a \in actions : a.card = 1 /\ a.pc = "swing"

\* C34: an id the lookup finds is found after every further step: a vote,
\* a refresh, a record call, the loss of one of the two stores while the
\* other holds its text; and a record call leaves every id that was found
\* before it in the cookie and in the local store.
C34_LedgerIsDurable ==
  [][/\ \A p \in PredictionIds : hasVotedPrediction(p) => hasVotedPrediction(p)'
     /\ \A predictionId \in PredictionIds :
          callAddVotedPredictionId(predictionId) =>
            /\ cookie'.present /\ localStorage'.present
            /\ \A p \in PredictionIds :
                 hasVotedPrediction(p) =>
                   /\ p \in SeqToSet(JSONparse(cookie'))
                   /\ p \in SeqToSet(JSONparse(localStorage'))]_vars

\* the cookie has gone after "p2" was recorded on top of "p1", and both
\* ids are still found
C34_Witness ==
  /\ ~cookie.present
  /\ localStorage = JSONstringify(<<"p1", "p2">>)
  /\ hasVotedPrediction("p1") /\ hasVotedPrediction("p2")
  /\ acks["p2"] = 1

\* C35 (as stated): a click that finds its prediction in the ledger, the
\* gate being free, leaves the gate free.
C35_AbortLeavesGateFree ==
  [][\A i \in DOMAIN dom : \A voteType \in VoteTypeAttrs :
       (/\ eventHandlerFunction(i, voteType)
        /\ ~isActiveClick /\ hasVotedPrediction(dom[i].id)) =>
         ~isActiveClick']_vars

\* C36 (as stated): when no refresh is in flight, the cards in the list
\* container are the predictions of the active tag button, each once and
\* in the order of their fetch.
C36_OneListAfterOverlap ==
  (pending = << >> /\ dom # << >>) =>
    [i \in DOMAIN dom |-> dom[i].id] = getPredictionsByTag(getActiveTagBtn)

\* the votes counted for a prediction in the record store
TotalVotes(table, predictionId) ==
  table[predictionId].up_count + table[predictionId].down_count

\* C37 (as stated): every vote action that ends with its update written
\* and acknowledged, in this page or in the other client, raises the stored
\* total of its prediction by one.
C37_NoLostVotes ==
  [][/\ \A a \in actions :
          updateVotesDone(a, "ok") =>
            TotalVotes(votesTable', a.id) = TotalVotes(votesTable, a.id) + 1
     /\ peerUpdateVotesDone("ok") =>
          TotalVotes(votesTable', peer.id) = TotalVotes(votesTable, peer.id) + 1]_vars

\* C38 (as stated): no click starts a vote action on a card whose countdown
\* had run out when the card was drawn.
C38_ExpiredAtRenderNotVotable ==
  [][\A i \in DOMAIN dom : \A voteType \in VoteTypeAttrs :
       (eventHandlerFunction(i, voteType) /\ ~dom[i].next) =>
         actions' = actions]_vars

\* C39: exactly one tag button is active in every state, whatever tag
\* clicks, returns from the form and refresh results have come in whatever
\* order.
C39_OneActiveTag ==
  /\ Cardinality(activeTags) = 1
  /\ activeTags \subseteq TagButtons

\* two refreshes have overlapped and both have succeeded, the one of the
\* clicked "politics" button last
C39_Witness ==
  /\ activeTags = {"politics"} /\ pending = << >> /\ tagDisabled = {}
  /\ Len(dom) = 3 /\ Len(runs) = 2

====
